---- MODULE Spec2Model ----
(***************************************************************************)
(* A model of the Simon game (game.py, buttons.py, scores.py).             *)
(*                                                                         *)
(* The program is single threaded: every FLTK callback (a timeout, a menu  *)
(* item, a mouse event on a button, a dialog answer) runs to completion.   *)
(* Each handler is modelled as a function from the program state (a        *)
(* record, see S) to the program state, so that a handler that calls       *)
(* another one (new_game -> stop_game -> all_off -> but_off ...) is the    *)
(* composition the code performs.  Time is in milliseconds; the FLTK       *)
(* timeout list holds, for every pending timeout, the time left.           *)
(***************************************************************************)
EXTENDS Integers, Sequences, FiniteSets, TLC

VARIABLES
    sequence,    \* SimonGame.sequence: the steps to reproduce
    player_seq,  \* SimonGame.player_seq: the steps the player entered
    duration,    \* SimonGame.duration (ms)
    interval,    \* SimonGame.interval (ms)
    active,      \* active[b]: game button b is activated (Fl_Widget.active)
    on,          \* on[b]: GameButton.on
    pushed,      \* the game button the mouse is held on (Fl::pushed), {} or {b}
    timeouts,    \* the pending Fl.add_timeout entries, earliest first
    wa,          \* number of channels WA_SOUND (the error cue) plays on
    err,         \* an IndexError was raised by is_correct
    scores,      \* SimonGame.scores
    modal,       \* the stack of open modal windows (dialogs, Scorewin)
    last,        \* history: the handler that ran last and what it did
    idle,        \* history: ms since input was enabled or a release was scored
    rounds,      \* history: the rounds the player completed in the running game
    store        \* the file .scores.pickle, and what became of reading and writing it

vars == <<sequence, player_seq, duration, interval, active, on, pushed,
          timeouts, wa, err, scores, modal, last, idle, rounds, store>>

(***************************************************************************)
(* Program constants (seconds of the source are milliseconds here).        *)
(***************************************************************************)
NumButtons == 4
InitDuration == 420
InitInterval == 80
Tier0Duration == 460
Tier0Interval == 108
Tier1Len == 6
Tier1Duration == 360
Tier2Len == 14
Tier2Duration == 260
StartDelay == 300
RoundDelay == 500
ResponseLimit == 5000
ErrorCueTime == 1300
LowScore == 2

(***************************************************************************)
(* Bounds of the model.                                                    *)
(***************************************************************************)
MaxLen == 3      \* the longest sequence a game is followed to
Tick == 400      \* the step (ms) by which time passes between two timeouts

Buttons == 0 .. (NumButtons - 1)
Win == NumButtons           \* owner of the callbacks bound to the window
None == "None"              \* Python's None as a dialog result
NA == "N/A"
Placeholder == [value |-> 0, name |-> NA, date |-> NA]

Max(a, b) == IF a >= b THEN a ELSE b

(***************************************************************************)
(* The program state as one record, as the handlers below transform it.    *)
(* The last four fields are history of the handler that is running: the    *)
(* cause of a game over it ran into, how often it started the error cue,   *)
(* the timeouts it removed, and the branch player_ans took.                *)
(***************************************************************************)
S == [sequence |-> sequence, player_seq |-> player_seq, duration |-> duration,
      interval |-> interval, active |-> active, on |-> on, pushed |-> pushed,
      timeouts |-> timeouts, wa |-> wa, err |-> err, scores |-> scores,
      modal |-> modal, store |-> store,
      over |-> "none", cue |-> 0, rm |-> <<>>, ans |-> "none"]

(***************************************************************************)
(* Fl.add_timeout / Fl.remove_timeout.  A timeout is inserted behind the   *)
(* pending ones that are due no later; remove_timeout(cb) removes every    *)
(* pending timeout of that callback (bound methods compare equal when      *)
(* they are the same method of the same object).  stale is a history       *)
(* field: the timeout was pending when a stop_game ran.                    *)
(***************************************************************************)
add_timeout(ts, t, cb, who, arg) ==
    LET r == [cb |-> cb, who |-> who, arg |-> arg, time |-> t, stale |-> FALSE]
        k == Cardinality({i \in 1 .. Len(ts) : ts[i].time <= t})
    IN  SubSeq(ts, 1, k) \o <<r>> \o SubSeq(ts, k + 1, Len(ts))

\* a remove_timeout that removes the first pending timeout of the callback only
remove_first_timeout(ts, cb, who) ==
    LET m == {i \in 1 .. Len(ts) : ts[i].cb = cb /\ ts[i].who = who}
    IN  IF m = {} THEN ts
        ELSE LET k == CHOOSE i \in m : \A j \in m : i <= j
             IN  SubSeq(ts, 1, k - 1) \o SubSeq(ts, k + 1, Len(ts))

remove_timeout(ts, cb, who) ==
    SelectSeq(ts, LAMBDA r : ~(r.cb = cb /\ r.who = who))

Matching(ts, cb, who) ==
    LET m == SelectSeq(ts, LAMBDA r : r.cb = cb /\ r.who = who)
    IN  [i \in 1 .. Len(m) |-> [cb |-> m[i].cb, who |-> m[i].who]]

Fl_add_timeout(s, t, cb, who, arg) ==
    [s EXCEPT !.timeouts = add_timeout(@, t, cb, who, arg)]

Fl_remove_timeout(s, cb, who) ==
    LET ts == remove_timeout(s.timeouts, cb, who)
    IN  [s EXCEPT !.timeouts = ts,
                  !.rm = @ \o SubSeq(Matching(s.timeouts, cb, who), 1,
                                     Len(s.timeouts) - Len(ts))]

Pending(ts, cb) == {i \in 1 .. Len(ts) : ts[i].cb = cb}

(***************************************************************************)
(* SimonGame.deactivate_buts / activate_buts.  Deactivating the button     *)
(* the mouse is held on takes the mouse from it (Fl_Widget::deactivate).   *)
(***************************************************************************)
\* a deactivate_buts that leaves the buttons as they are
deactivate_buts_noop(s) == s

deactivate_buts(s) ==
    [s EXCEPT !.active = [b \in Buttons |-> FALSE],
              !.pushed = {b \in s.pushed : ~s.active[b]}]

activate_buts(s) ==
    [s EXCEPT !.active = [b \in Buttons |-> TRUE]]

(***************************************************************************)
(* GameButton.but_off without its manual branch (the release handler       *)
(* below adds it): the button goes dark; the error cue is faded if it      *)
(* plays, else the button's own sound (not modelled).                      *)
(***************************************************************************)
\* a but_off that toggles the light
but_off_toggle(s, b) ==
    [s EXCEPT !.on[b] = ~@, !.wa = 0]

but_off(s, b) ==
    [s EXCEPT !.on[b] = FALSE, !.wa = 0]

RECURSIVE AllOffFrom(_, _)
AllOffFrom(s, b) ==
    IF b >= NumButtons THEN s ELSE AllOffFrom(but_off(s, b), b + 1)

all_off(s) == AllOffFrom(s, 0)

RECURSIVE RemoveAutoClicks(_, _)
RemoveAutoClicks(s, b) ==
    IF b >= NumButtons THEN s
    ELSE RemoveAutoClicks(Fl_remove_timeout(s, "auto_click", b), b + 1)

\* a remove_timeouts that forgets the turn-start callback
remove_timeouts_but_activate(s) ==
    LET s1 == Fl_remove_timeout(s, "play_seq", Win)
        s2 == Fl_remove_timeout(s1, "gameover", Win)
    IN  RemoveAutoClicks(s2, 0)

\* a remove_timeouts that forgets the response timeout
remove_timeouts_but_gameover(s) ==
    LET s1 == Fl_remove_timeout(s, "play_seq", Win)
        s3 == Fl_remove_timeout(s1, "activate_buts", Win)
    IN  RemoveAutoClicks(s3, 0)

\* a remove_timeouts that forgets the pending play_seq
remove_timeouts_but_play_seq(s) ==
    LET s2 == Fl_remove_timeout(s, "gameover", Win)
        s3 == Fl_remove_timeout(s2, "activate_buts", Win)
    IN  RemoveAutoClicks(s3, 0)

remove_timeouts(s) ==
    LET s1 == Fl_remove_timeout(s, "play_seq", Win)
        s2 == Fl_remove_timeout(s1, "gameover", Win)
        s3 == Fl_remove_timeout(s2, "activate_buts", Win)
    IN  RemoveAutoClicks(s3, 0)

MarkStale(ts) == [i \in 1 .. Len(ts) |-> [ts[i] EXCEPT !.stale = TRUE]]

\* a stop_game that leaves the buttons activated
stop_game_keep_active(s) ==
    LET s1 == remove_timeouts(all_off(s))
    IN  [s1 EXCEPT !.sequence = <<>>, !.player_seq = <<>>,
                   !.duration = Tier0Duration, !.interval = Tier0Interval,
                   !.timeouts = MarkStale(s1.timeouts)]

\* a stop_game that leaves the timing as the stopped game had it
stop_game_keep_timing(s) ==
    LET s1 == deactivate_buts(remove_timeouts(all_off(s)))
    IN  [s1 EXCEPT !.sequence = <<>>, !.player_seq = <<>>,
                   !.timeouts = MarkStale(s1.timeouts)]

stop_game(s) ==
    LET s1 == deactivate_buts(remove_timeouts(all_off(s)))
    IN  [s1 EXCEPT !.sequence = <<>>, !.player_seq = <<>>,
                   !.duration = Tier0Duration, !.interval = Tier0Interval,
                   !.timeouts = MarkStale(s1.timeouts)]

\* a new_game that does not stop the running game first
new_game_no_stop(s) ==
    Fl_add_timeout(s, StartDelay, "play_seq", Win, 0)

new_game(s) ==
    Fl_add_timeout(stop_game(s), StartDelay, "play_seq", Win, 0)

play_error_sound(s, stop) ==
    IF stop THEN [s EXCEPT !.wa = 0]
    ELSE Fl_add_timeout([s EXCEPT !.wa = @ + 1, !.cue = @ + 1],
                        ErrorCueTime, "play_error_sound", Win, 1)

view_scores(s, score) ==
    [s EXCEPT !.modal = <<[kind |-> "Scorewin", points |-> 0,
                           rows |-> s.scores, sel |-> score]>> \o @]

\* a gameover that credits the step the player failed on
gameover_full_length(s, timeout) ==
    LET points == Len(s.sequence)
        s1 == stop_game(s)
        s2 == IF timeout THEN play_error_sound(s1, FALSE) ELSE s1
    IN  [s2 EXCEPT !.scores = SelectSeq(s2.scores, LAMBDA x : x.date # NA),
                   !.modal = <<[kind |-> "fl_input", points |-> points,
                                rows |-> <<>>, sel |-> 0]>> \o @,
                   !.over = IF timeout THEN "timeout" ELSE "mismatch"]

(***************************************************************************)
(* SimonGame.gameover up to its fl_input dialog, which blocks in a nested  *)
(* event loop until it is answered (InputAnswer).                          *)
(***************************************************************************)
gameover(s, timeout) ==
    LET points == Max(Len(s.sequence) - 1, 0)
        s1 == stop_game(s)
        s2 == IF timeout THEN play_error_sound(s1, FALSE) ELSE s1
    IN  [s2 EXCEPT !.scores = SelectSeq(s2.scores, LAMBDA x : x.date # NA),
                   !.modal = <<[kind |-> "fl_input", points |-> points,
                                rows |-> <<>>, sel |-> 0]>> \o @,
                   !.over = IF timeout THEN "timeout" ELSE "mismatch"]

(***************************************************************************)
(* SimonGame.play_seq, with step the value randint(0, 3) returns.          *)
(***************************************************************************)
\* scheduling of the flashes without the gap between them
RECURSIVE AddAutoClicksNoGap(_, _)
AddAutoClicksNoGap(s, b) ==
    IF b >= Len(s.sequence) THEN s
    ELSE LET total_time == s.duration * b
         IN  AddAutoClicksNoGap(Fl_add_timeout(s, total_time, "auto_click",
                                               s.sequence[b + 1], s.duration), b + 1)

RECURSIVE AddAutoClicks(_, _)
AddAutoClicks(s, b) ==
    IF b >= Len(s.sequence) THEN s
    ELSE LET total_time == (s.duration * b) + (s.interval * b)
         IN  AddAutoClicks(Fl_add_timeout(s, total_time, "auto_click",
                                          s.sequence[b + 1], s.duration), b + 1)

\* a play_seq that starts the turn as the last flash ends
play_seq_turn_without_gap(s, step) ==
    LET s1 == deactivate_buts(s)
        s2 == [s1 EXCEPT !.sequence = Append(@, step)]
        s3 == IF Len(s2.sequence) = Tier1Len
              THEN [s2 EXCEPT !.duration = Tier1Duration, !.interval = Tier0Interval]
              ELSE IF Len(s2.sequence) = Tier2Len
              THEN [s2 EXCEPT !.duration = Tier2Duration, !.interval = Tier0Interval]
              ELSE s2
        s4 == [AddAutoClicks(s3, 0) EXCEPT !.player_seq = <<>>]
        seq_time == (s4.duration * Len(s4.sequence)) + (s4.interval * (Len(s4.sequence) - 1))
        s5 == Fl_add_timeout(s4, seq_time, "activate_buts", Win, 0)
    IN  Fl_add_timeout(s5, seq_time + ResponseLimit, "gameover", Win, 1)

\* a play_seq that puts the new step in front of the sequence
play_seq_prepend(s, step) ==
    LET s1 == deactivate_buts(s)
        s2 == [s1 EXCEPT !.sequence = <<step>> \o @]
        s3 == IF Len(s2.sequence) = Tier1Len
              THEN [s2 EXCEPT !.duration = Tier1Duration, !.interval = Tier0Interval]
              ELSE IF Len(s2.sequence) = Tier2Len
              THEN [s2 EXCEPT !.duration = Tier2Duration, !.interval = Tier0Interval]
              ELSE s2
        s4 == [AddAutoClicks(s3, 0) EXCEPT !.player_seq = <<>>]
        seq_time == (s4.duration * Len(s4.sequence)) + (s4.interval * Len(s4.sequence))
        s5 == Fl_add_timeout(s4, seq_time, "activate_buts", Win, 0)
    IN  Fl_add_timeout(s5, seq_time + ResponseLimit, "gameover", Win, 1)

\* a play_seq that counts the response limit from the start of the playback
play_seq_early_timeout(s, step) ==
    LET s1 == deactivate_buts(s)
        s2 == [s1 EXCEPT !.sequence = Append(@, step)]
        s3 == IF Len(s2.sequence) = Tier1Len
              THEN [s2 EXCEPT !.duration = Tier1Duration, !.interval = Tier0Interval]
              ELSE IF Len(s2.sequence) = Tier2Len
              THEN [s2 EXCEPT !.duration = Tier2Duration, !.interval = Tier0Interval]
              ELSE s2
        s4 == [AddAutoClicks(s3, 0) EXCEPT !.player_seq = <<>>]
        seq_time == (s4.duration * Len(s4.sequence)) + (s4.interval * Len(s4.sequence))
        s5 == Fl_add_timeout(s4, seq_time, "activate_buts", Win, 0)
    IN  Fl_add_timeout(s5, ResponseLimit, "gameover", Win, 1)

play_seq(s, step) ==
    LET s1 == deactivate_buts(s)
        s2 == [s1 EXCEPT !.sequence = Append(@, step)]
        s3 == IF Len(s2.sequence) = Tier1Len
              THEN [s2 EXCEPT !.duration = Tier1Duration, !.interval = Tier0Interval]
              ELSE IF Len(s2.sequence) = Tier2Len
              THEN [s2 EXCEPT !.duration = Tier2Duration, !.interval = Tier0Interval]
              ELSE s2
        s4 == [AddAutoClicks(s3, 0) EXCEPT !.player_seq = <<>>]
        seq_time == (s4.duration * Len(s4.sequence)) + (s4.interval * Len(s4.sequence))
        s5 == Fl_add_timeout(s4, seq_time, "activate_buts", Win, 0)
    IN  Fl_add_timeout(s5, seq_time + ResponseLimit, "gameover", Win, 1)

(***************************************************************************)
(* SimonGame.is_correct reads sequence[len(player_seq)]; InRange tells     *)
(* whether that index exists (Python raises IndexError when it does not).  *)
(***************************************************************************)
InRange(s) == Len(s.player_seq) + 1 <= Len(s.sequence)

\* an is_correct that compares with the first step of the sequence
is_correct_first(s, ans) == s.sequence[1] = ans

is_correct(s, ans) == s.sequence[Len(s.player_seq) + 1] = ans

\* a player_ans that does not end the game on a wrong answer
player_ans_forgiving(s, ans) ==
    LET s1 == Fl_remove_timeout(s, "gameover", Win)
    IN  IF ~InRange(s1) THEN [s1 EXCEPT !.err = TRUE]
        ELSE IF is_correct(s1, ans)
        THEN LET s2 == [s1 EXCEPT !.player_seq = Append(@, ans)]
             IN  IF Len(s2.player_seq) = Len(s2.sequence)
                 THEN Fl_add_timeout([deactivate_buts(s2) EXCEPT !.ans = "complete"],
                                     RoundDelay, "play_seq", Win, 0)
                 ELSE Fl_add_timeout([s2 EXCEPT !.ans = "correct"],
                                     ResponseLimit, "gameover", Win, 1)
        ELSE [s1 EXCEPT !.ans = "wrong"]

\* a player_ans that leaves the outstanding response timeout pending
player_ans_keep_timeout(s, ans) ==
    IF ~InRange(s) THEN [s EXCEPT !.err = TRUE]
    ELSE IF is_correct(s, ans)
    THEN LET s2 == [s EXCEPT !.player_seq = Append(@, ans)]
         IN  IF Len(s2.player_seq) = Len(s2.sequence)
             THEN Fl_add_timeout([deactivate_buts(s2) EXCEPT !.ans = "complete"],
                                 RoundDelay, "play_seq", Win, 0)
             ELSE Fl_add_timeout([s2 EXCEPT !.ans = "correct"],
                                 ResponseLimit, "gameover", Win, 1)
    ELSE gameover([s EXCEPT !.ans = "wrong"], FALSE)

\* a player_ans that leaves the input enabled when the round is completed
player_ans_stay_active(s, ans) ==
    LET s1 == Fl_remove_timeout(s, "gameover", Win)
    IN  IF ~InRange(s1) THEN [s1 EXCEPT !.err = TRUE]
        ELSE IF is_correct(s1, ans)
        THEN LET s2 == [s1 EXCEPT !.player_seq = Append(@, ans)]
             IN  IF Len(s2.player_seq) = Len(s2.sequence)
                 THEN Fl_add_timeout([s2 EXCEPT !.ans = "complete"],
                                     RoundDelay, "play_seq", Win, 0)
                 ELSE Fl_add_timeout([s2 EXCEPT !.ans = "correct"],
                                     ResponseLimit, "gameover", Win, 1)
        ELSE gameover([s1 EXCEPT !.ans = "wrong"], FALSE)

player_ans(s, ans) ==
    LET s1 == Fl_remove_timeout(s, "gameover", Win)
    IN  IF ~InRange(s1) THEN [s1 EXCEPT !.err = TRUE]
        ELSE IF is_correct(s1, ans)
        THEN LET s2 == [s1 EXCEPT !.player_seq = Append(@, ans)]
             IN  IF Len(s2.player_seq) = Len(s2.sequence)
                 THEN Fl_add_timeout([deactivate_buts(s2) EXCEPT !.ans = "complete"],
                                     RoundDelay, "play_seq", Win, 0)
                 ELSE Fl_add_timeout([s2 EXCEPT !.ans = "correct"],
                                     ResponseLimit, "gameover", Win, 1)
        ELSE gameover([s1 EXCEPT !.ans = "wrong"], FALSE)

(***************************************************************************)
(* GameButton.auto_click, manual_click and handle.                         *)
(***************************************************************************)
\* an auto_click whose flash lasts into the next one
auto_click_overlong(s, b, d) ==
    Fl_add_timeout(Fl_remove_timeout([s EXCEPT !.on[b] = TRUE], "but_off", b),
                   d + s.interval + 1, "but_off", b, 0)

auto_click(s, b, d) ==
    Fl_add_timeout(Fl_remove_timeout([s EXCEPT !.on[b] = TRUE], "but_off", b),
                   d, "but_off", b, 0)

\* a manual_click that sends the press to the answer checking
manual_click_scored(s, b) ==
    player_ans([s EXCEPT !.on[b] = TRUE], b)

manual_click(s, b) ==
    LET s1 == [s EXCEPT !.on[b] = TRUE]
    IN  IF ~InRange(s1) THEN [s1 EXCEPT !.err = TRUE]
        ELSE IF is_correct(s1, b) THEN s1
        ELSE [s1 EXCEPT !.wa = @ + 1]

\* FL_PUSH with the left button inside the ring of button b.  FLTK hands
\* no event to a deactivated widget, nor to a window under a modal one.
handle_push(s, b) ==
    IF s.active[b] /\ s.modal = <<>>
    THEN [manual_click(s, b) EXCEPT !.pushed = {b}]
    ELSE s

\* FL_RELEASE, sent to the button the mouse was pushed on.
handle_release(s, b) ==
    LET s1 == [s EXCEPT !.pushed = {}]
    IN  IF s1.on[b] THEN player_ans(but_off(s1, b), b) ELSE s1

(***************************************************************************)
(* The rest of SimonGame.gameover, from the answer to fl_input on.         *)
(***************************************************************************)
\* a sort by ascending points
RECURSIVE SortAsc(_)
SortAsc(xs) ==
    IF xs = <<>> THEN <<>>
    ELSE LET init == SortAsc(SubSeq(xs, 1, Len(xs) - 1))
             x == xs[Len(xs)]
             k == Cardinality({j \in 1 .. Len(init) : init[j].value <= x.value})
         IN  SubSeq(init, 1, k) \o <<x>> \o SubSeq(init, k + 1, Len(init))

RECURSIVE SortDesc(_)
SortDesc(xs) ==
    IF xs = <<>> THEN <<>>
    ELSE LET init == SortDesc(SubSeq(xs, 1, Len(xs) - 1))
             x == xs[Len(xs)]
             k == Cardinality({j \in 1 .. Len(init) : init[j].value >= x.value})
         IN  SubSeq(init, 1, k) \o <<x>> \o SubSeq(init, k + 1, Len(init))

\* scores.append(score); scores.sort(...); view_scores(0, scores.index(score) + 2)
record_score(s, points, name) ==
    LET score == [value |-> points,
                  name |-> IF name = "" \/ name = None THEN "Anonymous" ELSE name,
                  date |-> "date"]
        k == Cardinality({j \in 1 .. Len(s.scores) : s.scores[j].value >= points})
    IN  view_scores([s EXCEPT !.scores = SortDesc(Append(@, score))], k + 2)

Pop(s) == [s EXCEPT !.modal = Tail(@)]

gameover_input(s, name) ==
    LET points == Head(s.modal).points
        s1 == Pop(s)
    IN  IF name # None THEN record_score(s1, points, name)
        ELSE IF points > LowScore
        THEN [s1 EXCEPT !.modal = <<[kind |-> "fl_choice", points |-> points,
                                     rows |-> <<>>, sel |-> 0]>> \o @]
        ELSE view_scores(s1, 0)

\* choice 0: 'Yes' (or the dialog was closed), throw the score out; 1: 'No'
gameover_choice(s, choice) ==
    LET points == Head(s.modal).points
        s1 == Pop(s)
    IN  IF choice = 0
        THEN view_scores([s1 EXCEPT !.scores = Append(@, Placeholder)], 0)
        ELSE [s1 EXCEPT !.modal = <<[kind |-> "fl_input2", points |-> points,
                                     rows |-> <<>>, sel |-> 0]>> \o @]

gameover_input2(s, name) ==
    record_score(Pop(s), Head(s.modal).points, name)

\* Scorewin.exit_cb
exit_cb(s) == Pop(s)

(***************************************************************************)
(* Scorewin.  The window on top of the modal stack shows rows, the scores  *)
(* as add_scores read them, and sel, the selected browser line (0: none;   *)
(* line 1 is the column titles, line v shows rows[v - 1]).                 *)
(***************************************************************************)
RemoveAt(xs, i) == SubSeq(xs, 1, i - 1) \o SubSeq(xs, i + 1, Len(xs))

\* a click on browser line v
select_row(s, v) == [s EXCEPT !.modal[1].sel = v]

\* the end of remove_score: del scores[value() - 2], then the browser line.
\* An index past the end of the list raises IndexError and removes nothing.
remove_selected(s) ==
    LET v == Head(s.modal).sel
    IN  IF v - 1 <= Len(s.scores)
        THEN [s EXCEPT !.scores = RemoveAt(@, v - 1),
                       !.modal[1].rows = RemoveAt(@, v - 1),
                       !.modal[1].sel = 0]
        ELSE s

\* Scorewin.remove_score up to its fl_choice dialog
remove_score(s) ==
    LET w == Head(s.modal)
        points == w.rows[w.sel - 1].value
    IN  IF points > LowScore
        THEN [s EXCEPT !.modal = <<[kind |-> "fl_choice_remove", points |-> points,
                                    rows |-> <<>>, sel |-> 0]>> \o @]
        ELSE remove_selected(s)

\* choice 0: 'No' (or the dialog was closed); 1: 'Yes'
remove_choice(s, choice) ==
    IF choice # 0 THEN remove_selected(Pop(s)) ELSE Pop(s)

(***************************************************************************)
(* The score file.  store.file is what is on disk ("missing", "good": a    *)
(* pickled list, store.saved; "corrupt": not a pickle; "unreadable": no    *)
(* permission to read), store.writable whether open(..., 'wb') succeeds.   *)
(* History: store.load is the file that __init__ met, store.raised that an *)
(* exception left __init__ or save_scores, store.shown that the window was *)
(* constructed and is not hidden.                                          *)
(***************************************************************************)
FileStates == {"missing", "good", "corrupt", "unreadable"}

\* save_scores: open(..., 'wb') and pickle.dump, no exception handled
save_scores(s) ==
    IF s.store.writable
    THEN [s EXCEPT !.store.file = "good", !.store.saved = s.scores]
    ELSE [s EXCEPT !.store.raised = TRUE]

\* the exception of save_scores leaves reset_cb before add_scores
reset_cb(s) ==
    LET s1 == save_scores([s EXCEPT !.scores = <<Placeholder>>])
    IN  IF ~s.store.writable THEN s1
        ELSE [s1 EXCEPT !.modal[1].rows = <<Placeholder>>,
                        !.modal[1].sel = 0]

\* SimonGame.hide: the exception of save_scores leaves it before super().hide()
hide(s) ==
    LET s1 == save_scores(s)
    IN  IF ~s.store.writable THEN s1 ELSE [s1 EXCEPT !.store.shown = FALSE]

\* The scores and the store after SimonGame.__init__ met the file in state
\* file (with content saved, if good): only FileNotFoundError is caught.
\* An exception leaves __init__, and main(), before self.scores is assigned
\* (no list: <<>>) or, from save_scores, after it.
SimonGame(file, saved, writable) ==
    LET st == [file |-> file, saved |-> IF file = "good" THEN saved ELSE <<>>,
               writable |-> writable, load |-> file, raised |-> FALSE,
               shown |-> TRUE]
    IN  IF file = "good" THEN [scores |-> saved, store |-> st]
        ELSE IF file = "missing"
        THEN LET s1 == save_scores([scores |-> <<Placeholder>>, store |-> st])
             IN  [s1 EXCEPT !.store.shown = writable]
        ELSE [scores |-> <<>>,
              store |-> [st EXCEPT !.raised = TRUE, !.shown = FALSE]]

(***************************************************************************)
(* The state after construction (SimonGame.__init__): the score file is    *)
(* missing, so the list is the placeholder alone.                          *)
(***************************************************************************)
Init ==
    /\ sequence = <<>>
    /\ player_seq = <<>>
    /\ duration = InitDuration
    /\ interval = InitInterval
    /\ active = [b \in Buttons |-> FALSE]
    /\ on = [b \in Buttons |-> FALSE]
    /\ pushed = {}
    /\ timeouts = <<>>
    /\ wa = 0
    /\ err = FALSE
    /\ scores = <<Placeholder>>
    /\ modal = <<>>
    /\ last = [op |-> "init", over |-> "none", cue |-> 0, stale |-> FALSE,
               rm |-> <<>>, ans |-> "none"]
    /\ idle = 0
    /\ rounds = 0
    /\ store = SimonGame("missing", <<>>, TRUE).store

AnyActive(a) == \E b \in Buttons : a[b]

\* The handler op took the program to state s; elapsed ms passed before it
\* ran; stale: it was a timeout left over from before a stop_game; reset: it
\* enabled the input or scored a release.
Commit(s, op, stale, elapsed, reset) ==
    /\ sequence' = s.sequence
    /\ player_seq' = s.player_seq
    /\ duration' = s.duration
    /\ interval' = s.interval
    /\ active' = s.active
    /\ on' = s.on
    /\ pushed' = s.pushed
    /\ timeouts' = s.timeouts
    /\ wa' = s.wa
    /\ err' = s.err
    /\ scores' = s.scores
    /\ modal' = s.modal
    /\ last' = [op |-> op, over |-> s.over, cue |-> s.cue, stale |-> stale,
                rm |-> s.rm, ans |-> s.ans]
    /\ idle' = IF ~AnyActive(s.active) \/ reset THEN 0 ELSE idle + elapsed
    /\ rounds' = IF s.sequence = <<>> THEN 0
                 ELSE IF s.ans = "complete" THEN rounds + 1 ELSE rounds
    /\ store' = s.store

(***************************************************************************)
(* User events on the main window; none reaches it under a modal window.   *)
(***************************************************************************)
NewGame ==
    /\ modal = <<>>
    /\ Commit(new_game(S), "new_game", FALSE, 0, FALSE)

StopGame ==
    /\ modal = <<>>
    /\ Commit(stop_game(S), "stop_game", FALSE, 0, FALSE)

ViewScores ==
    /\ modal = <<>>
    /\ pushed = {}
    /\ Commit(view_scores(S, 0), "view_scores", FALSE, 0, FALSE)

\* a press that would complete the round of the longest sequence followed
AtBound(b) ==
    /\ active[b] /\ modal = <<>>
    /\ Len(sequence) >= MaxLen
    /\ Len(player_seq) + 1 = Len(sequence)
    /\ sequence[Len(sequence)] = b

Press(b) ==
    /\ pushed = {}
    /\ ~AtBound(b)
    /\ Commit(handle_push(S, b), "press", FALSE, 0, FALSE)

Release(b) ==
    /\ pushed = {b}
    /\ LET s == handle_release(S, b)
       IN  Commit(s, "release", FALSE, 0, Len(s.player_seq) > Len(player_seq))

(***************************************************************************)
(* Time.  The earliest timeout fires once its time has passed; between     *)
(* timeouts time passes in steps of Tick.                                  *)
(***************************************************************************)
Rest == [i \in 1 .. (Len(timeouts) - 1) |->
            [timeouts[i + 1] EXCEPT !.time = @ - timeouts[1].time]]

Fire(cb) ==
    /\ timeouts # <<>>
    /\ Head(timeouts).cb = cb

Fired == [S EXCEPT !.timeouts = Rest]

FireAutoClick ==
    /\ Fire("auto_click")
    /\ LET r == Head(timeouts)
       IN  Commit(auto_click(Fired, r.who, r.arg), r.cb, r.stale, r.time, FALSE)

FireButOff ==
    /\ Fire("but_off")
    /\ LET r == Head(timeouts)
       IN  Commit(but_off(Fired, r.who), r.cb, r.stale, r.time, FALSE)

FireActivate ==
    /\ Fire("activate_buts")
    /\ LET r == Head(timeouts)
       IN  Commit(activate_buts(Fired), r.cb, r.stale, r.time, TRUE)

FireGameover ==
    /\ Fire("gameover")
    /\ LET r == Head(timeouts)
       IN  Commit(gameover(Fired, r.arg = 1), r.cb, r.stale, r.time, FALSE)

FirePlaySeq ==
    /\ Fire("play_seq")
    /\ LET r == Head(timeouts)
       IN  \E step \in Buttons :
               Commit(play_seq(Fired, step), r.cb, r.stale, r.time, FALSE)

FireErrorStop ==
    /\ Fire("play_error_sound")
    /\ LET r == Head(timeouts)
       IN  Commit(play_error_sound(Fired, r.arg = 1), r.cb, r.stale, r.time, FALSE)

Elapse ==
    /\ timeouts # <<>>
    /\ Head(timeouts).time > Tick
    /\ timeouts' = [i \in 1 .. Len(timeouts) |-> [timeouts[i] EXCEPT !.time = @ - Tick]]
    /\ idle' = IF AnyActive(active) THEN idle + Tick ELSE 0
    /\ last' = [op |-> "elapse", over |-> "none", cue |-> 0, stale |-> FALSE,
                rm |-> <<>>, ans |-> "none"]
    /\ UNCHANGED <<sequence, player_seq, duration, interval, active, on, pushed,
                   wa, err, scores, modal, rounds, store>>

(***************************************************************************)
(* Answers to the modal dialogs of gameover, and closing the score window. *)
(***************************************************************************)
Top(kind) == modal # <<>> /\ Head(modal).kind = kind

InputAnswer(name) ==
    /\ Top("fl_input")
    /\ Commit(gameover_input(S, name), "fl_input", FALSE, 0, FALSE)

ChoiceAnswer(choice) ==
    /\ Top("fl_choice")
    /\ Commit(gameover_choice(S, choice), "fl_choice", FALSE, 0, FALSE)

Input2Answer(name) ==
    /\ Top("fl_input2")
    /\ Commit(gameover_input2(S, name), "fl_input2", FALSE, 0, FALSE)

CloseScores ==
    /\ Top("Scorewin")
    /\ Commit(exit_cb(S), "exit_cb", FALSE, 0, FALSE)

(***************************************************************************)
(* The game: every dialog is dismissed without a name, which leaves the    *)
(* game itself every behaviour it has (no handler of the game reads the    *)
(* score list).                                                            *)
(***************************************************************************)
Next ==
    \/ NewGame
    \/ StopGame
    \/ ViewScores
    \/ \E b \in Buttons : Press(b)
    \/ \E b \in Buttons : Release(b)
    \/ FireAutoClick
    \/ FireButOff
    \/ FireActivate
    \/ FireGameover
    \/ FirePlaySeq
    \/ FireErrorStop
    \/ Elapse
    \/ InputAnswer(None)
    \/ CloseScores

Spec == Init /\ [][Next]_vars

(***************************************************************************)
(* The long game: the player enters every step right and in time, so that  *)
(* the sequence grows through the tiers of the timing; a game can be       *)
(* stopped or restarted at any moment.  The first FreeLen steps are any    *)
(* button, the later ones button 0 (the timing reads no step).             *)
(***************************************************************************)
LongLen == 15    \* the longest sequence the long game is followed to
FreeLen == 1     \* the leading steps of a sequence that are any button

Steps(seq) == IF Len(seq) < FreeLen THEN Buttons ELSE {0}

PlayNextStep ==
    /\ Fire("play_seq")
    /\ Len(sequence) < LongLen
    /\ LET r == Head(timeouts)
       IN  \E step \in Steps(sequence) :
               Commit(play_seq(Fired, step), r.cb, r.stale, r.time, FALSE)

PressExpected ==
    /\ pushed = {}
    /\ modal = <<>>
    /\ AnyActive(active)
    /\ InRange(S)
    /\ Commit(handle_push(S, sequence[Len(player_seq) + 1]), "press", FALSE, 0, FALSE)

LongNext ==
    \/ NewGame
    \/ StopGame
    \/ PressExpected
    \/ \E b \in Buttons : Release(b)
    \/ FireAutoClick
    \/ FireButOff
    \/ FireActivate
    \/ PlayNextStep

LongSpec == Init /\ [][LongNext]_vars

(***************************************************************************)
(* The scores: games of steps of button 0, which the player enters right   *)
(* or wrong or not at all, every answer to the dialogs of gameover, and    *)
(* the score window with its selection, deletion and reset.  Time passes   *)
(* by the firing of the timeouts.                                          *)
(***************************************************************************)
ShortLen == 4    \* the longest sequence a game of the scores is followed to
MaxScores == 2   \* no game is started with that many scores in the list

RealScores(xs) == SelectSeq(xs, LAMBDA x : x.date # NA)

StartGame ==
    /\ Len(RealScores(scores)) < MaxScores
    /\ NewGame

PlayStepZero ==
    /\ Fire("play_seq")
    /\ LET r == Head(timeouts)
       IN  Commit(play_seq(Fired, 0), r.cb, r.stale, r.time, FALSE)

PressRight ==
    /\ Len(player_seq) + 1 < Len(sequence) \/ Len(sequence) < ShortLen
    /\ PressExpected

PressWrong ==
    /\ pushed = {}
    /\ modal = <<>>
    /\ AnyActive(active)
    /\ InRange(S)
    /\ Commit(handle_push(S, (sequence[Len(player_seq) + 1] + 1) % NumButtons),
              "press", FALSE, 0, FALSE)

SelectRow ==
    /\ Top("Scorewin")
    /\ \E v \in 2 .. (Len(Head(modal).rows) + 1) :
           Commit(select_row(S, v), "brows_cb", FALSE, 0, FALSE)

RemoveScore ==
    /\ Top("Scorewin")
    /\ Head(modal).sel >= 2
    /\ Commit(remove_score(S), "remove_score", FALSE, 0, FALSE)

RemoveAnswer(choice) ==
    /\ Top("fl_choice_remove")
    /\ Commit(remove_choice(S, choice),
              IF choice = 0 THEN "remove_declined" ELSE "remove_confirmed",
              FALSE, 0, FALSE)

ResetScores ==
    /\ Top("Scorewin")
    /\ Commit(reset_cb(S), "reset_cb", FALSE, 0, FALSE)

ScoreNext ==
    \/ StartGame
    \/ ViewScores
    \/ PressRight
    \/ PressWrong
    \/ \E b \in Buttons : Release(b)
    \/ FireAutoClick
    \/ FireButOff
    \/ FireActivate
    \/ FireGameover
    \/ PlayStepZero
    \/ FireErrorStop
    \/ \E name \in {None, ""} : InputAnswer(name)
    \/ \E choice \in {0, 1} : ChoiceAnswer(choice)
    \/ \E name \in {None, ""} : Input2Answer(name)
    \/ SelectRow
    \/ RemoveScore
    \/ \E choice \in {0, 1} : RemoveAnswer(choice)
    \/ ResetScores
    \/ CloseScores

ScoreSpec == Init /\ [][ScoreNext]_vars

(***************************************************************************)
(* The score file: the games of the scores, in a window constructed over   *)
(* every state of the file, until the window is closed.  A window whose    *)
(* construction raised is never shown (main() ends with the exception);    *)
(* a hidden main window ends Fl.run().                                     *)
(***************************************************************************)
SavedLists == {<<Placeholder>>,
               <<[value |-> 3, name |-> "Anonymous", date |-> "date"]>>}

StoreInit ==
    /\ sequence = <<>>
    /\ player_seq = <<>>
    /\ duration = InitDuration
    /\ interval = InitInterval
    /\ active = [b \in Buttons |-> FALSE]
    /\ on = [b \in Buttons |-> FALSE]
    /\ pushed = {}
    /\ timeouts = <<>>
    /\ wa = 0
    /\ err = FALSE
    /\ modal = <<>>
    /\ last = [op |-> "init", over |-> "none", cue |-> 0, stale |-> FALSE,
               rm |-> <<>>, ans |-> "none"]
    /\ idle = 0
    /\ rounds = 0
    /\ \E file \in FileStates, saved \in SavedLists, writable \in BOOLEAN :
           LET g == SimonGame(file, saved, writable)
           IN  scores = g.scores /\ store = g.store

\* the close button of the main window
Hide ==
    /\ modal = <<>>
    /\ Commit(hide(S), "hide", FALSE, 0, FALSE)

StoreNext ==
    /\ store.shown
    /\ (ScoreNext \/ Hide)

StoreSpec == StoreInit /\ [][StoreNext]_vars

(***************************************************************************)
(* The claims.                                                             *)
(***************************************************************************)
GameCallbacks == {"auto_click", "activate_buts", "gameover", "play_seq"}

GamePending(ts) == {i \in 1 .. Len(ts) : ts[i].cb \in GameCallbacks}

\* C1, as claimed: no callback that was scheduled before a stop_game or a
\* new_game fires after it, the but_off of a flash and the stop of the error
\* cue included.
C1_NoStaleCallbackFires == ~last.stale

\* C1, amended: once stop_game or new_game has run, no auto_click,
\* activate_buts, gameover or play_seq callback scheduled before it is pending
\* or fires.  A but_off or an error-cue stop scheduled before it is not
\* cancelled and may fire afterwards; when it does it changes none of
\* sequence, player_seq, the timing, the enabled input, the lit buttons and
\* the other pending callbacks.
C1_OnlyButOffAndCueStopSurvive ==
    [][/\ \A i \in 1 .. Len(timeouts') :
              timeouts'[i].stale => timeouts'[i].cb \in {"but_off", "play_error_sound"}
       /\ last'.stale =>
              /\ last'.op \in {"but_off", "play_error_sound"}
              /\ timeouts' = Rest
              /\ UNCHANGED <<sequence, player_seq, duration, interval, active,
                             on, pushed, err, scores, modal>>]_vars

\* a but_off left over from a stopped game has fired while the next game plays
C1_StaleButOffInNewGame ==
    last.stale /\ last.op = "but_off" /\ sequence # <<>>

\* C2: right after stop_game returns no auto_click, activate_buts, gameover or
\* play_seq callback is pending.
C2_StopLeavesNoGameCallback ==
    last.op = "stop_game" => GamePending(timeouts) = {}

\* stop_game has run in mid-playback and removed two flashes of one button,
\* the turn start and the response timeout
C2_StoppedMidPlayback ==
    /\ last.op = "stop_game"
    /\ \E i, j \in 1 .. Len(last.rm) :
           i < j /\ last.rm[i] = last.rm[j] /\ last.rm[i].cb = "auto_click"
    /\ \E i \in 1 .. Len(last.rm) : last.rm[i].cb = "activate_buts"
    /\ \E i \in 1 .. Len(last.rm) : last.rm[i].cb = "gameover"

\* C3: in every reachable state player_seq is a prefix of sequence.
C3_PlayerSeqIsPrefix ==
    /\ Len(player_seq) <= Len(sequence)
    /\ \A i \in 1 .. Len(player_seq) : player_seq[i] = sequence[i]

\* two of three steps are entered
C3_MidRound ==
    Len(player_seq) = 2 /\ Len(sequence) = 3 /\ last.op = "release"

\* exactly one timeout of callback cb is pending, due in t ms
OnePending(ts, cb, t) ==
    \E i \in 1 .. Len(ts) : Pending(ts, cb) = {i} /\ ts[i].time = t

\* C4: within a game the sequence only grows, by one step of 0..3 appended by
\* each play_seq; the only other change is the clear by stop_game (called by
\* the menu, by new_game or by gameover).  The release that completes a round
\* ends no game and leaves exactly one play_seq pending, due in 0.5 s, and no
\* other callback of the game.
C4_SequenceAppendOnly ==
    [][/\ sequence' # sequence =>
              \/ /\ last'.op = "play_seq"
                 /\ Len(sequence') = Len(sequence) + 1
                 /\ SubSeq(sequence', 1, Len(sequence)) = sequence
                 /\ sequence'[Len(sequence')] \in Buttons
              \/ /\ sequence' = <<>>
                 /\ last'.op \in {"stop_game", "new_game"} \/ last'.over # "none"
       /\ last'.op = "play_seq" => Len(sequence') = Len(sequence) + 1
       /\ last'.ans = "complete" =>
              /\ last'.over = "none"
              /\ sequence' = sequence
              /\ modal' = modal
              /\ OnePending(timeouts', "play_seq", RoundDelay)
              /\ GamePending(timeouts') = Pending(timeouts', "play_seq")]_vars

\* the round of a sequence of two steps was completed and play_seq has
\* appended the third step
C4_ThirdStepAppended ==
    last.op = "play_seq" /\ Len(sequence) = 3 /\ player_seq = <<>>

\* C5: the release of a lit button that is not the next step of the sequence
\* ends the game in that handler: gameover runs with timeout=False and starts
\* no error cue, no response timeout is left pending, the sequence is cleared
\* and the input disabled; and while no game runs (the sequence is empty) no
\* response timeout is pending, so none can fire for the game that ended.
C5_MismatchEndsGameAtOnce ==
    [][/\ \A b \in Buttons :
              (pushed = {b} /\ last'.op = "release" /\ on[b]
                  /\ InRange(S) /\ ~is_correct(S, b))
              => /\ last'.over = "mismatch"
                 /\ last'.cue = 0
                 /\ \E i \in 1 .. Len(last'.rm) : last'.rm[i].cb = "gameover"
                 /\ Pending(timeouts', "gameover") = {}
                 /\ sequence' = <<>>
                 /\ ~AnyActive(active')
                 /\ modal' # <<>> /\ Head(modal').kind = "fl_input"
       /\ sequence' = <<>> => Pending(timeouts', "gameover") = {}]_vars

\* a wrong button was released while the response timeout was pending
C5_WrongRelease ==
    /\ last.op = "release" /\ last.over = "mismatch" /\ last.ans = "wrong"
    /\ \E i \in 1 .. Len(last.rm) : last.rm[i].cb = "gameover"

\* C6: while the input is enabled exactly one response timeout is pending, due
\* 5 s after the input was enabled or the last release was scored.  When it
\* fires, gameover runs with timeout=True, starts the error cue once and leaves
\* exactly one cue stop pending, due in 1.3 s; a cue stop is never removed
\* before it fires, and stops the cue when it does.  A game over by a wrong
\* release starts no cue and schedules no cue stop.
C6_TimeoutAfterFiveSeconds ==
    [][/\ AnyActive(active') =>
              OnePending(timeouts', "gameover", ResponseLimit - idle')
       /\ last'.op = "gameover" =>
              /\ AnyActive(active)
              /\ idle + Head(timeouts).time = ResponseLimit
              /\ last'.over = "timeout"
              /\ last'.cue = 1
              /\ wa' = 1
              /\ OnePending(timeouts', "play_error_sound", ErrorCueTime)
       /\ last'.op = "play_error_sound" => wa' = 0
       /\ Cardinality(Pending(timeouts', "play_error_sound"))
              < Cardinality(Pending(timeouts, "play_error_sound"))
          => last'.op = "play_error_sound"
       /\ last'.over = "mismatch" =>
              /\ last'.cue = 0
              /\ Cardinality(Pending(timeouts', "play_error_sound"))
                     = Cardinality(Pending(timeouts, "play_error_sound"))]_vars

\* no release was scored for 5 s, the game ended with the cue, and the cue was
\* stopped by its callback
C6_CueStoppedAfterTimeout ==
    last.op = "play_error_sound" /\ ~last.stale /\ wa = 0 /\ modal # <<>>

\* C7: every scored release removes the outstanding response timeout, so that
\* each one pending afterwards was scheduled by that release; a correct release
\* that does not complete the round leaves exactly one pending, due in 5 s.
C7_CorrectPressRenewsTimeout ==
    [][\A b \in Buttons :
           (pushed = {b} /\ last'.op = "release" /\ on[b])
           => /\ Cardinality({i \in 1 .. Len(last'.rm) : last'.rm[i].cb = "gameover"})
                     = Cardinality(Pending(timeouts, "gameover"))
              /\ \A i \in Pending(timeouts', "gameover") :
                     timeouts'[i].time = ResponseLimit
              /\ (InRange(S) /\ is_correct(S, b)
                      /\ Len(player_seq) + 1 < Len(sequence))
                 => /\ last'.ans = "correct"
                    /\ OnePending(timeouts', "gameover", ResponseLimit)
                    /\ idle' = 0]_vars

\* the first of several steps was entered and the old timeout removed
C7_FirstStepEntered ==
    /\ last.op = "release" /\ last.ans = "correct" /\ Len(player_seq) = 1
    /\ \E i \in 1 .. Len(last.rm) : last.rm[i].cb = "gameover"

\* C8, as claimed: right after the release that completes the round,
\* player_seq is empty, the input is disabled and a play_seq is pending, due
\* in 0.5 s.
C8_RoundCompleteClearsProgress ==
    last.ans = "complete" =>
        /\ player_seq = <<>>
        /\ ~AnyActive(active)
        /\ OnePending(timeouts, "play_seq", RoundDelay)

\* C8, amended: right after the release that completes the round the input is
\* disabled and a play_seq is pending, due in 0.5 s, but player_seq is not
\* cleared: it equals the sequence, and is empty only once play_seq has run.
C8_RoundCompleteKeepsProgress ==
    /\ last.ans = "complete" =>
           /\ player_seq = sequence /\ sequence # <<>>
           /\ ~AnyActive(active)
           /\ OnePending(timeouts, "play_seq", RoundDelay)
    /\ last.op = "play_seq" => player_seq = <<>>

\* the round of a sequence of two steps has just been completed
C8_RoundOfTwoCompleted ==
    last.op = "release" /\ last.ans = "complete" /\ Len(sequence) = 2

\* no input is accepted: no game runs, or the next step is about to be added,
\* or the sequence is being played
NotAccepting(s) ==
    \/ s.sequence = <<>>
    \/ Pending(s.timeouts, "play_seq") # {}
    \/ Pending(s.timeouts, "activate_buts") # {}

\* C9: a press on a game button while no input is accepted changes nothing of
\* the program state, and in such a state the mouse is held on no game button,
\* so that no release is handled either.
C9_PressIgnoredWhenNotAccepting ==
    [][/\ (NotAccepting(S) /\ last'.op = "press")
          => /\ UNCHANGED <<sequence, player_seq, duration, interval, active, on,
                            pushed, timeouts, wa, err, scores, modal>>
             /\ last'.over = "none"
       /\ (sequence' = <<>> \/ Pending(timeouts', "play_seq") # {}
             \/ Pending(timeouts', "activate_buts") # {}) => pushed' = {}]_vars

\* a button was pressed in the 0.3 s after new_game, before any step exists
C9_PressBeforeFirstStep ==
    /\ last.op = "press"
    /\ sequence = <<>>
    /\ OnePending(timeouts, "play_seq", StartDelay)

\* C10: right after new_game, whatever the state it was called in, sequence
\* and player_seq are empty, the input is disabled, all buttons are off, the
\* timing is that of the first tier, and of the auto_click, activate_buts,
\* gameover and play_seq callbacks exactly one is pending: a play_seq due in
\* 0.3 s.
C10_NewGameResets ==
    last.op = "new_game" =>
        /\ sequence = <<>> /\ player_seq = <<>>
        /\ ~AnyActive(active)
        /\ \A b \in Buttons : ~on[b]
        /\ pushed = {}
        /\ duration = Tier0Duration /\ interval = Tier0Interval
        /\ OnePending(timeouts, "play_seq", StartDelay)
        /\ GamePending(timeouts) = Pending(timeouts, "play_seq")

\* new_game was called in mid-playback, with flashes, the turn start and the
\* response timeout pending
C10_RestartMidPlayback ==
    /\ last.op = "new_game"
    /\ \E i \in 1 .. Len(last.rm) : last.rm[i].cb = "auto_click"
    /\ \E i \in 1 .. Len(last.rm) : last.rm[i].cb = "activate_buts"
    /\ \E i \in 1 .. Len(last.rm) : last.rm[i].cb = "gameover"

\* the fields of the game a handler left in state s
GameState(s) ==
    <<s.sequence, s.player_seq, s.duration, s.interval, s.active>>

\* C11, as claimed: in every state a second stop_game changes nothing of what
\* the first one left, and the first one leaves the game idle: both lists
\* empty, the input disabled, the first-tier timing, no callback pending.
C11_StopLeavesNothingPending ==
    LET once == stop_game(S)
    IN  /\ stop_game(once) = once
        /\ once.sequence = <<>> /\ once.player_seq = <<>>
        /\ ~AnyActive(once.active)
        /\ once.duration = Tier0Duration /\ once.interval = Tier0Interval
        /\ once.timeouts = <<>>

\* C11, amended: in every state a second stop_game changes nothing of what the
\* first one left (and a stop_game called right after one changes nothing at
\* all), and the first one leaves the game idle: both lists empty, the input
\* disabled, all buttons off, the first-tier timing, and none of the
\* auto_click, activate_buts, gameover and play_seq callbacks pending; a
\* but_off or an error-cue stop may still be pending.
C11_StopGameIdempotent ==
    LET once == stop_game(S)
    IN  /\ stop_game(once) = once
        /\ once.sequence = <<>> /\ once.player_seq = <<>>
        /\ ~AnyActive(once.active)
        /\ \A b \in Buttons : ~once.on[b]
        /\ once.duration = Tier0Duration /\ once.interval = Tier0Interval
        /\ GamePending(once.timeouts) = {}
        /\ \A i \in 1 .. Len(once.timeouts) :
               once.timeouts[i].cb \in {"but_off", "play_error_sound"}
        /\ last.op = "stop_game" => once = S

\* stop_game has just stopped a game in mid-flash: the but_off is left pending
C11_StoppedInMidFlash ==
    /\ last.op = "stop_game"
    /\ last.rm # <<>>
    /\ Pending(timeouts, "but_off") # {}

\* C12: a stop_game called while no game runs and none is about to start
\* leaves sequence, player_seq, duration, interval and the enabled input as
\* they were.
C12_StopWhenIdleIsNoOp ==
    [][(/\ last'.op = "stop_game"
        /\ sequence = <<>>
        /\ GamePending(timeouts) = {})
       => GameState([sequence |-> sequence', player_seq |-> player_seq',
                     duration |-> duration', interval |-> interval',
                     active |-> active']) = GameState(S)]_vars

\* C13: the points a game over shows are max(len(sequence) - 1, 0) for the
\* sequence as it was when the game ended, and that is the number of rounds
\* the player completed in that game.
C13_PointsAreCompletedRounds ==
    [][last'.over # "none" =>
           /\ modal' # <<>>
           /\ Head(modal').kind = "fl_input"
           /\ Head(modal').points = Max(Len(sequence) - 1, 0)
           /\ Head(modal').points = rounds
           /\ Len(sequence) >= 1]_vars

\* a wrong release in the round of a sequence of three steps: two points
C13_TwoPointsOnMismatch ==
    /\ last.op = "release" /\ last.over = "mismatch"
    /\ modal # <<>> /\ Head(modal).kind = "fl_input" /\ Head(modal).points = 2

\* the pending flashes, earliest first
AutoClicks(ts) == SelectSeq(ts, LAMBDA r : r.cb = "auto_click")

\* the pending but_off timeouts that no stop_game has left behind
LiveButOffs(ts) == SelectSeq(ts, LAMBDA r : r.cb = "but_off" /\ ~r.stale)

\* C15: play_seq leaves one flash pending per step, the flash of step i
\* (0-based) on button sequence[i] at i * (duration + interval), so in the
\* order of the sequence and at strictly increasing times.  A flash that
\* starts lights its button alone, its but_off is due after duration and the
\* next flash after duration + interval; when the but_off fires, all buttons
\* are off and the next flash is due after interval.
C15_FlashesFollowTheSequence ==
    LET ac == AutoClicks(timeouts)
        k == Len(sequence) - Len(ac)
    IN  /\ last.op = "play_seq" =>
               /\ Len(ac) = Len(sequence)
               /\ \A i \in 1 .. Len(ac) :
                      /\ ac[i].who = sequence[i]
                      /\ ac[i].time = (i - 1) * (duration + interval)
                      /\ ac[i].arg = duration
                      /\ i > 1 => ac[i].time > ac[i - 1].time
        /\ last.op = "auto_click" =>
               /\ k >= 1
               /\ \A b \in Buttons : on[b] <=> b = sequence[k]
               /\ Len(LiveButOffs(timeouts)) = 1
               /\ LiveButOffs(timeouts)[1].who = sequence[k]
               /\ LiveButOffs(timeouts)[1].time = duration
               /\ \A i \in Pending(timeouts, "but_off") :
                      timeouts[i].who = sequence[k] => ~timeouts[i].stale
               /\ ac # <<>> =>
                      /\ ac[1].who = sequence[k + 1]
                      /\ ac[1].time = duration + interval
        /\ (last.op = "but_off" /\ ~last.stale) =>
               /\ \A b \in Buttons : ~on[b]
               /\ ac # <<>> => ac[1].time = interval

\* the second flash has started, on the button the first flash was on
C15_SameButtonTwice ==
    /\ last.op = "auto_click"
    /\ Len(sequence) = 3
    /\ sequence[1] = sequence[2]
    /\ Len(AutoClicks(timeouts)) = 1

\* C16: play_seq leaves the turn start pending at n * (duration + interval)
\* for the sequence of n steps, which is later than the end of the last
\* flash, and the response timeout 5 s after that.  When the turn starts no
\* flash is pending or lit and the timeout is due in exactly 5 s; the turn
\* start is always ahead of the timeout in the queue.
C16_TurnStartsAfterLastFlash ==
    LET n == Len(sequence)
        seq_time == n * (duration + interval)
    IN  /\ last.op = "play_seq" =>
               /\ OnePending(timeouts, "activate_buts", seq_time)
               /\ OnePending(timeouts, "gameover", seq_time + ResponseLimit)
               /\ ((n - 1) * (duration + interval)) + duration < seq_time
        /\ last.op = "activate_buts" =>
               /\ AnyActive(active)
               /\ AutoClicks(timeouts) = <<>>
               /\ LiveButOffs(timeouts) = <<>>
               /\ \A b \in Buttons : ~on[b]
               /\ OnePending(timeouts, "gameover", ResponseLimit)
        /\ \A i \in Pending(timeouts, "activate_buts") :
               \A j \in Pending(timeouts, "gameover") : i < j

\* the turn starts after a sequence of three steps was played
C16_TurnStartedAfterThreeFlashes ==
    last.op = "activate_buts" /\ Len(sequence) = 3 /\ ~last.stale

\* the flash duration of the tier a sequence of n steps is in
TimingFor(n) ==
    IF n < Tier1Len THEN Tier0Duration
    ELSE IF n < Tier2Len THEN Tier1Duration
    ELSE Tier2Duration

\* C14: while a game has a sequence, duration is that of the tier of its
\* length (0.46 s below 6 steps, 0.36 s below 14, 0.26 s from 14 on) and
\* interval is 0.108 s; the flashes play_seq schedules get that duration.  As
\* the sequence of a game grows, duration never grows and changes only when
\* play_seq makes the length 6 or 14, and interval does not change.  The first
\* sequence of every game is played with the first-tier timing, whatever tier
\* the game before had reached.
C14_TimingIsStepFunctionOfLength ==
    [][/\ sequence' # <<>> =>
              /\ duration' = TimingFor(Len(sequence'))
              /\ interval' = Tier0Interval
       /\ last'.op = "play_seq" =>
              \A i \in 1 .. Len(AutoClicks(timeouts')) :
                  AutoClicks(timeouts')[i].arg = TimingFor(Len(sequence'))
       /\ (sequence # <<>> /\ sequence' # <<>>) =>
              /\ duration' <= duration
              /\ interval' = interval
              /\ duration' # duration =>
                     /\ last'.op = "play_seq"
                     /\ Len(sequence') \in {Tier1Len, Tier2Len}
       /\ (last'.op = "play_seq" /\ sequence = <<>>) =>
              /\ duration' = Tier0Duration
              /\ interval' = Tier0Interval]_vars

\* a sequence of 14 steps is played, with the timing of the last tier
C14_LastTierReached ==
    /\ last.op = "play_seq"
    /\ Len(sequence) = Tier2Len
    /\ duration = Tier2Duration /\ interval = Tier0Interval

\* a dialog of gameover is open: the handler has not returned yet
InGameover == \E i \in 1 .. Len(modal) :
                  modal[i].kind \in {"fl_input", "fl_choice", "fl_input2"}

\* C17: whenever no gameover is under way, the score list holds at least
\* one entry.
C17_ScoresNeverEmpty ==
    ~InGameover => scores # <<>>

\* C18: the placeholder is in the score list only when no real score is.
C18_PlaceholderOnlyWhenAlone ==
    (\E i \in 1 .. Len(scores) : scores[i].date = NA)
        => RealScores(scores) = <<>>

\* C19: the score list is in descending order of points (it is so after
\* construction): after every recorded score, deletion, discard and reset.
C19_ScoresSortedDescending ==
    \A i \in 1 .. (Len(scores) - 1) : scores[i].value >= scores[i + 1].value

\* a score was recorded that is higher than the one in the list, and the
\* score window shows it selected on the first line of the scores
C19_HigherScoreRecordedFirst ==
    /\ last.op \in {"fl_input", "fl_input2"}
    /\ Len(scores) = 2
    /\ scores[1].value > scores[2].value
    /\ Top("Scorewin") /\ Head(modal).sel = 2

\* C20: remove_score on the selected line of an entry with at most 2 points
\* removes that entry from the list at once and opens no dialog; on one with
\* more points it removes nothing and opens the confirmation.  A declined or
\* dismissed confirmation removes nothing, a confirmed one removes the
\* selected entry and no other.  No other step, save the reset, removes an
\* entry of more than 2 points.
C20_DeletionRemovesSelectedEntry ==
    [][/\ last'.op = "remove_score" =>
              LET w == Head(modal)
                  e == w.rows[w.sel - 1]
              IN  IF e.value <= LowScore
                  THEN /\ \E i \in 1 .. Len(scores) :
                              scores[i] = e /\ scores' = RemoveAt(scores, i)
                       /\ Len(modal') = Len(modal)
                  ELSE /\ scores' = scores
                       /\ Head(modal').kind = "fl_choice_remove"
       /\ last'.op = "remove_declined" => scores' = scores
       /\ last'.op = "remove_confirmed" =>
              LET w == modal[2]
                  e == w.rows[w.sel - 1]
              IN  \E i \in 1 .. Len(scores) :
                      scores[i] = e /\ scores' = RemoveAt(scores, i)
       /\ (\E i \in 1 .. Len(scores) :
               /\ scores[i].value > LowScore
               /\ Len(SelectSeq(scores', LAMBDA x : x = scores[i]))
                      < Len(SelectSeq(scores, LAMBDA x : x = scores[i])))
          => last'.op \in {"remove_confirmed", "reset_cb"}]_vars

\* C22: a press on an enabled button lights it and, for a wrong button,
\* starts the error sound, and does nothing else: sequence, player_seq, the
\* timing, the enabled input and every pending timeout stay as they were, and
\* no answer is checked.  An answer is checked only in the release of the
\* button the mouse is held on, which is lit.
C22_PressIsNotScored ==
    [][/\ last'.op = "press" =>
              /\ UNCHANGED <<sequence, player_seq, duration, interval, active,
                             timeouts, scores, modal>>
              /\ last'.ans = "none" /\ last'.over = "none" /\ last'.rm = <<>>
              /\ \A b \in Buttons : on[b] => on'[b]
              /\ wa' \in {wa, wa + 1}
       /\ last'.ans # "none" =>
              /\ last'.op = "release"
              /\ \E b \in Buttons : pushed = {b} /\ on[b]
       /\ \A b \in Buttons : (pushed = {b} /\ last'.op = "release") => on[b]]_vars

\* a wrong button is held down: the error sound plays, the game goes on
C22_WrongButtonHeld ==
    /\ last.op = "press"
    /\ pushed # {}
    /\ wa = 1
    /\ sequence # <<>>
    /\ Pending(timeouts, "gameover") # {}

\* C23: while the input is enabled the sequence is not empty and player_seq
\* is shorter than it, and no is_correct call has read past the end of the
\* sequence.
C23_AnswerIndexInRange ==
    /\ AnyActive(active) => (sequence # <<>> /\ InRange(S))
    /\ ~err

\* the last step of a sequence of two is being entered
C23_LastStepPressed ==
    /\ last.op = "press"
    /\ pushed # {}
    /\ Len(sequence) = 2
    /\ Len(player_seq) = 1

\* C24: at most one response timeout is pending; while the input is enabled
\* exactly one is, due when 5 s have passed since the turn started or a
\* release was last scored, so that no more than 5 s pass.  That time starts
\* anew, or the input is disabled, only by a release, by the timeout's
\* gameover or by a stop (stop_game, new_game).
C24_OneResponseTimeout ==
    [][/\ Cardinality(Pending(timeouts', "gameover")) <= 1
       /\ AnyActive(active') =>
              /\ idle' <= ResponseLimit
              /\ \E i \in Pending(timeouts', "gameover") :
                     timeouts'[i].time + idle' = ResponseLimit
       /\ (AnyActive(active) /\ (~AnyActive(active') \/ idle' < idle)) =>
              last'.op \in {"release", "gameover", "stop_game", "new_game"}]_vars

\* well into the 5 s after a scored release, the input still enabled
C24_WaitingAfterScoredRelease ==
    /\ AnyActive(active)
    /\ player_seq # <<>>
    /\ idle >= 4 * Tick

\* C25: at most one play_seq is pending, and none while the input is enabled
\* or a response timeout is pending; while one is pending no flash and no
\* turn start is.  There are never more flashes pending than the sequence has
\* steps, nor two turn starts.
C25_OnePlaySeqPending ==
    /\ Cardinality(Pending(timeouts, "play_seq")) <= 1
    /\ (AnyActive(active) \/ Pending(timeouts, "gameover") # {})
           => Pending(timeouts, "play_seq") = {}
    /\ Pending(timeouts, "play_seq") # {}
           => GamePending(timeouts) = Pending(timeouts, "play_seq")
    /\ Len(AutoClicks(timeouts)) <= Len(sequence)
    /\ Cardinality(Pending(timeouts, "activate_buts")) <= 1

\* a game was restarted in the 0.5 s between two rounds
C25_RestartBetweenRounds ==
    /\ last.op = "new_game"
    /\ last.rm = <<[cb |-> "play_seq", who |-> Win]>>
    /\ OnePending(timeouts, "play_seq", StartDelay)

\* C26: at most one button is lit.  While the input is enabled no flash is
\* pending, no button is lit by a flash (no but_off of the playback is
\* pending) and a lit button is the one the mouse is held on; when the input
\* becomes enabled all buttons are off.
C26_OneButtonLitAtATime ==
    /\ Cardinality({b \in Buttons : on[b]}) <= 1
    /\ AnyActive(active) =>
           /\ AutoClicks(timeouts) = <<>>
           /\ LiveButOffs(timeouts) = <<>>
           /\ \A b \in Buttons : on[b] => pushed = {b}
    /\ ~AnyActive(active) =>
           \A b \in Buttons : on[b] =>
               \E i \in 1 .. Len(LiveButOffs(timeouts)) :
                   LiveButOffs(timeouts)[i].who = b
    /\ last.op = "activate_buts" => \A b \in Buttons : ~on[b]

\* the second flash is lit, on another button than the first, which is off
C26_SecondFlashOnOtherButton ==
    /\ last.op = "auto_click"
    /\ Len(sequence) = 3
    /\ Len(AutoClicks(timeouts)) = 1
    /\ sequence[1] # sequence[2]
    /\ on[sequence[2]] /\ ~on[sequence[1]]

\* C21: no exception leaves the loading or the saving of the score file, and
\* a window constructed over a file that could not be loaded is shown with
\* the placeholder as its only score.
C21_PersistenceFailureNeverCrashes ==
    /\ ~store.raised
    /\ (last.op = "init" /\ store.load # "good")
           => (store.shown /\ scores = <<Placeholder>>)

====
